---- MODULE Spec2Model ----
(***************************************************************************)
(* pdf2square: convert() of src/lib.js with its helpers (page-range math,  *)
(* listPagePngs, parseBackground, pLimit), modelled as a state machine.    *)
(*                                                                         *)
(* Specifications:                                                         *)
(*   LimSpec / LimFairSpec : the limiter pLimit(n) alone, driven by an     *)
(*                           environment that submits async tasks;         *)
(*   SyncSpec              : the same limiter, with task functions that    *)
(*                           may throw before returning a promise;         *)
(*   Spec                  : one convert() call, whose page jobs run under *)
(*                           the same limiter actions;                     *)
(*   BgSpec                : parseBackground applied to bounded strings;   *)
(*   CliSpec               : the command-line program around convert();    *)
(*   DuoSpec               : two convert() calls running concurrently.     *)
(* Promise reactions (.then, .finally) are separate steps: they run as     *)
(* microtasks after the promise they wait for has settled.                 *)
(***************************************************************************)
EXTENDS Integers, Sequences, FiniteSets, TLC

(* ----------------------------- bounds ---------------------------------- *)
\* tasks the environment submits to a stand-alone limiter
MaxTasks == 4
\* largest limit of a stand-alone limiter
MaxN == 2
\* largest page count pdfinfo reports
MaxTotal == 2
\* largest value of the options first and maxPages that is tried
MaxOpt == 3
\* largest page number in a file name of the scratch directory
MaxPage == 3

VARIABLES
  \* ---- pLimit closure state (src/lib.js 216-235)
  n,          \* the limit handed to pLimit
  active,     \* let active
  queue,      \* const queue: task ids, oldest first
  \* ---- promises around each task
  tstate,     \* task id -> "none" | "queued" | "running" | "settled" | "delivered" | "released" | "threw"
  tout,       \* task id -> outcome of the promise fn() returned: "none" | "ok" | "err"
  pout,       \* task id -> state of the promise limit(fn) returned: "none" | "pending" | "ok" | "err"
  starts,     \* task id -> number of times fn() was called
  startOrder, \* task ids in the order fn() was called
  nsub,       \* number of tasks submitted so far
  settleOrder,\* task ids in the order the promises of the submissions settled
  \* ---- one convert() call (src/lib.js 43-156)
  pc,         \* position of the call
  opts,       \* the merged options
  doc,        \* what is at pathToPdf: "valid" | "notPdf" | "missing"
  bg,         \* const bg: what parseBackground returned
  cli,        \* the command-line program around convert (cli.js)
  duo,        \* two convert() calls running concurrently, and os.tmpdir()
  tempDir,    \* "none" | "exists" | "removed"
  dirFiles,   \* names in the scratch directory
  totalPages, firstPage, lastPage,
  files,      \* what listPagePngs returned
  jobpc,      \* task id -> position of the page job: "none" | "img" | "text" | "done"
  recs,       \* task id -> record the job returned (or NoRec)
  results,    \* the array convert returns
  pending,    \* completion carried through the finally block
  outcome,    \* "pending" | "resolved" | "rejected"
  err,        \* the error convert rejected with
  calls,      \* call counters: pdfinfo, pdfToCairo, pdfToText per page, fs.rm and its failures
  warned      \* console.warn calls

limvars == <<n, active, queue, tstate, tout, pout, starts, startOrder, nsub, settleOrder>>
cvars == <<pc, opts, doc, duo, bg, cli, tempDir, dirFiles, totalPages, firstPage, lastPage, files,
           jobpc, recs, results, pending, outcome, err, calls, warned>>
vars == <<n, active, queue, tstate, tout, pout, starts, startOrder, nsub, settleOrder,
          pc, opts, doc, duo, bg, cli, tempDir, dirFiles, totalPages, firstPage, lastPage, files,
          jobpc, recs, results, pending, outcome, err, calls, warned>>

(* --------------------------- small helpers ----------------------------- *)
Max(a, b) == IF a >= b THEN a ELSE b
Min(a, b) == IF a <= b THEN a ELSE b
Range(s) == { s[i] : i \in 1..Len(s) }

\* ids of the tasks a limiter can hold in this model
TaskIds == 1..(MaxTasks + 1)

NoRec == [pageNumber |-> 0, file |-> <<>>, textPage |-> 0, mime |-> <<>>]

(* ------------------------------ pLimit --------------------------------- *)
\* const next = () => { if (active >= n || queue.length === 0) return;
\*                      active++; const {fn,..} = queue.shift(); fn()... }
\* Result: the new active and queue, and the ids whose fn() was called.
nextNoGuard(lim, a, q) ==
  IF Len(q) = 0
  THEN [active |-> a, queue |-> q, started |-> <<>>]
  ELSE [active |-> a + 1, queue |-> Tail(q), started |-> <<Head(q)>>]

nextLifo(lim, a, q) ==
  IF a >= lim \/ Len(q) = 0
  THEN [active |-> a, queue |-> q, started |-> <<>>]
  ELSE [active |-> a + 1, queue |-> SubSeq(q, 1, Len(q) - 1),
        started |-> <<q[Len(q)]>>]

next(lim, a, q) ==
  IF a >= lim \/ Len(q) = 0
  THEN [active |-> a, queue |-> q, started |-> <<>>]
  ELSE [active |-> a + 1, queue |-> Tail(q), started |-> <<Head(q)>>]

\* (fn) => new Promise((resolve, reject) => { queue.push(...); next(); })
limit(lim, a, q, t) == next(lim, a, Append(q, t))

\* the bookkeeping of the promises after one call of next()
Started(r, ts) ==
  [t \in TaskIds |-> IF t \in Range(r.started) THEN "running" ELSE ts[t]]
Counted(r, st) ==
  [t \in TaskIds |-> IF t \in Range(r.started) THEN st[t] + 1 ELSE st[t]]

\* the environment calls limit(fn) with a new async task
Submit ==
  /\ pc = "limiter"
  /\ nsub < MaxTasks
  /\ LET t == nsub + 1
         r == limit(n, active, queue, t)
     IN /\ active' = r.active
        /\ queue' = r.queue
        /\ tstate' = Started(r, [tstate EXCEPT ![t] = "queued"])
        /\ starts' = Counted(r, starts)
        /\ startOrder' = startOrder \o r.started
        /\ pout' = [pout EXCEPT ![t] = "pending"]
        /\ nsub' = t
  /\ UNCHANGED <<n, tout, settleOrder>>
  /\ UNCHANGED cvars

\* the promise fn() returned settles: fulfilled ("ok") or rejected ("err")
Settle(t, o) ==
  /\ pc = "limiter"
  /\ tstate[t] = "running"
  /\ tstate' = [tstate EXCEPT ![t] = "settled"]
  /\ tout' = [tout EXCEPT ![t] = o]
  /\ UNCHANGED <<n, active, queue, pout, starts, startOrder, nsub, settleOrder>>
  /\ UNCHANGED cvars

\* .then(resolve, reject): the promise of the submission takes the task's outcome
ThenReactionSwallow(t) ==
  /\ tstate[t] = "settled"
  /\ tstate' = [tstate EXCEPT ![t] = "delivered"]
  /\ pout' = [pout EXCEPT ![t] = "ok"]
  /\ settleOrder' = Append(settleOrder, t)
  /\ UNCHANGED <<n, active, queue, tout, starts, startOrder, nsub>>
  /\ UNCHANGED cvars

ThenReaction(t) ==
  /\ tstate[t] = "settled"
  /\ tstate' = [tstate EXCEPT ![t] = "delivered"]
  /\ pout' = [pout EXCEPT ![t] = tout[t]]
  /\ settleOrder' = Append(settleOrder, t)
  /\ UNCHANGED <<n, active, queue, tout, starts, startOrder, nsub>>
  /\ UNCHANGED cvars

\* an async page job that next() starts runs up to its first await
\* (pipeline.png().toBuffer(), src/lib.js 118/120); a task of the stand-alone
\* limiter has no inner positions
JobStarted(r, jp) ==
  [t \in TaskIds |->
     IF t \in Range(r.started) /\ pc # "limiter" THEN "img" ELSE jp[t]]

\* .finally(() => { active--; next(); })
FinallyReactionNoNext(t) ==
  /\ tstate[t] = "delivered"
  /\ active' = active - 1
  /\ tstate' = [tstate EXCEPT ![t] = "released"]
  /\ UNCHANGED <<n, queue, tout, pout, starts, startOrder, nsub, settleOrder>>
  /\ UNCHANGED <<pc, opts, doc, duo, bg, cli, tempDir, dirFiles, totalPages, firstPage, lastPage,
                 files, jobpc, recs, results, pending, outcome, err, calls, warned>>

FinallyReactionNoDecrement(t) ==
  /\ tstate[t] = "delivered"
  /\ LET r == next(n, active, queue)
     IN /\ active' = r.active
        /\ queue' = r.queue
        /\ tstate' = Started(r, [tstate EXCEPT ![t] = "released"])
        /\ starts' = Counted(r, starts)
        /\ startOrder' = startOrder \o r.started
        /\ jobpc' = JobStarted(r, jobpc)
  /\ UNCHANGED <<n, tout, pout, nsub, settleOrder>>
  /\ UNCHANGED <<pc, opts, doc, duo, bg, cli, tempDir, dirFiles, totalPages, firstPage, lastPage,
                 files, recs, results, pending, outcome, err, calls, warned>>

FinallyReaction(t) ==
  /\ tstate[t] = "delivered"
  /\ LET r == next(n, active - 1, queue)
     IN /\ active' = r.active
        /\ queue' = r.queue
        /\ tstate' = Started(r, [tstate EXCEPT ![t] = "released"])
        /\ starts' = Counted(r, starts)
        /\ startOrder' = startOrder \o r.started
        /\ jobpc' = JobStarted(r, jobpc)
  /\ UNCHANGED <<n, tout, pout, nsub, settleOrder>>
  /\ UNCHANGED <<pc, opts, doc, duo, bg, cli, tempDir, dirFiles, totalPages, firstPage, lastPage,
                 files, recs, results, pending, outcome, err, calls, warned>>

(* ----------------------- the stand-alone limiter ----------------------- *)
\* what can be at pathToPdf: a PDF, a file that is not one, or nothing
Docs == {"valid", "notPdf", "missing"}
NoBg == [thrown |-> FALSE, r |-> 0, g |-> 0, b |-> 0, a255 |-> 0, warn |-> 0]
NoCli == [pc |-> "none"]
NoDuo == [call |-> <<>>, tmp |-> <<>>]
NoOpts == [first |-> 1, maxPages |-> 1, format |-> <<>>, bg |-> <<>>, concurrency |-> 1]
\* page numbers that can appear in a file name of the scratch directory
Pages == 1..MaxPage
NoCalls == [pdfinfo |-> 0, render |-> 0, text |-> [p \in Pages |-> 0],
            rm |-> 0, rmFailed |-> 0]

LimiterIdle ==
  /\ active = 0
  /\ queue = <<>>
  /\ tstate = [t \in TaskIds |-> "none"]
  /\ tout = [t \in TaskIds |-> "none"]
  /\ pout = [t \in TaskIds |-> "none"]
  /\ starts = [t \in TaskIds |-> 0]
  /\ startOrder = <<>>
  /\ nsub = 0
  /\ settleOrder = <<>>
  /\ jobpc = [t \in TaskIds |-> "none"]
  /\ recs = [t \in TaskIds |-> NoRec]

\* const limit = pLimit(N), N an integer >= 1
LimInit ==
  /\ n \in 1..MaxN
  /\ LimiterIdle
  /\ pc = "limiter"
  /\ opts = NoOpts
  /\ doc = "valid"
  /\ duo = NoDuo
  /\ bg = NoBg
  /\ cli = NoCli
  /\ tempDir = "none"
  /\ dirFiles = {}
  /\ totalPages = 0 /\ firstPage = 0 /\ lastPage = 0
  /\ files = <<>>
  /\ results = <<>>
  /\ pending = "none"
  /\ outcome = "pending"
  /\ err = "none"
  /\ calls = NoCalls
  /\ warned = 0

LimNext ==
  \/ Submit
  \/ \E t \in TaskIds : Settle(t, "ok")
  \/ \E t \in TaskIds : Settle(t, "err")
  \/ \E t \in TaskIds : ThenReaction(t)
  \/ \E t \in TaskIds : FinallyReaction(t)

LimSpec == LimInit /\ [][LimNext]_vars

\* every started task eventually settles, and the microtask queue is drained
LimFairSpec ==
  /\ LimSpec
  /\ \A t \in TaskIds : WF_vars(Settle(t, "ok") \/ Settle(t, "err"))
  /\ \A t \in TaskIds : WF_vars(ThenReaction(t))
  /\ \A t \in TaskIds : WF_vars(FinallyReaction(t))

(* ------------------------ limiter: properties -------------------------- *)
\* tasks whose fn() was called and whose promise has not settled yet
Running == { t \in TaskIds : tstate[t] = "running" }
\* tasks that hold a slot: started, slot not yet released by .finally
Holding == { t \in TaskIds : tstate[t] \in {"running", "settled", "delivered"} }
Submitted == { t \in TaskIds : tstate[t] # "none" }
Ascending(k) == [i \in 1..k |-> i]

\* C3: for pLimit(N), N >= 1, in every reachable state the number of tasks
\* that have been started and have not yet settled is at most N.
C3_AtMostNRunning ==
  /\ Cardinality(Running) <= n
  /\ Cardinality(Holding) <= n

\* N tasks are running, another one waits, and a task has already failed
C3_Witness ==
  /\ Cardinality(Running) = n
  /\ queue # <<>>
  /\ \E t \in TaskIds : tout[t] = "err"

\* C4: if every started task eventually settles, every submitted task is
\* eventually started, and no task is started more than once.
C4_EveryTaskStartedOnce ==
  /\ [](\A t \in TaskIds : starts[t] <= 1)
  /\ \A t \in TaskIds : (tstate[t] # "none") ~> (starts[t] = 1)

\* all tasks were submitted, one failed, and one that had to wait has run
C4_Witness ==
  /\ nsub = MaxTasks
  /\ \A t \in 1..MaxTasks : starts[t] = 1 /\ tstate[t] = "released"
  /\ \E t \in TaskIds : tout[t] = "err"
  /\ \E t \in TaskIds : tout[t] = "ok"

\* C5: when a task rejects, the promise of its submission rejects with the
\* task's error, every other submission settles with its own task's outcome,
\* and no running or queued task is cancelled or skipped.
C5_FailureIsolated ==
  /\ [](\A t \in TaskIds :
          /\ pout[t] \in {"ok", "err"} => pout[t] = tout[t]
          /\ tstate[t] \in {"delivered", "released"} => pout[t] = tout[t])
  /\ [][\A t \in TaskIds :
          (tout[t] = "none" /\ tout'[t] = "err") =>
             /\ queue' = queue
             /\ \A u \in TaskIds \ {t} :
                  tstate'[u] = tstate[u] /\ pout'[u] = pout[u]]_vars
  /\ \A t \in TaskIds :
       (tstate[t] # "none") ~> (tout[t] # "none" /\ pout[t] = tout[t])

\* an early task failed, and a task queued behind it has settled fulfilled
C5_Witness ==
  \E t, u \in TaskIds :
    /\ t < u /\ u > n
    /\ pout[t] = "err" /\ tout[t] = "err"
    /\ pout[u] = "ok" /\ tout[u] = "ok"

\* started tasks are the first submitted ones, in submission order
Fifo == startOrder = Ascending(Len(startOrder))

\* the .finally reaction of a task, of either outcome, starts the oldest
\* queued task in the same step
ReleaseStartsHead ==
  \A t \in TaskIds :
    (tstate[t] = "delivered" /\ tstate'[t] = "released" /\ queue # <<>>) =>
       /\ tstate'[Head(queue)] = "running"
       /\ queue' = Tail(queue)

\* C6 as stated: a submitted task is started immediately when fewer than N
\* tasks are running, otherwise queued; queued tasks start in submission
\* order, as soon as a running task settles, on success and on failure.
C6_Original ==
  /\ [][nsub' = nsub + 1 =>
          IF Cardinality(Running) < n
          THEN tstate'[nsub'] = "running"
          ELSE tstate'[nsub'] = "queued"]_vars
  /\ [](Fifo)
  /\ [][ReleaseStartsHead]_vars

\* C6 amended: a submitted task is started immediately when active < N,
\* that is when fewer than N started tasks still hold their slot (a settled
\* task holds its slot until its .finally reaction runs), otherwise queued;
\* queued tasks start in submission order, the oldest one in the .finally
\* reaction of any settled task, on success and on failure alike.
C6_Amended ==
  /\ [][nsub' = nsub + 1 =>
          IF active < n
          THEN tstate'[nsub'] = "running" /\ queue' = queue
          ELSE tstate'[nsub'] = "queued" /\ queue' = Append(queue, nsub')]_vars
  /\ [](Fifo)
  /\ [][ReleaseStartsHead]_vars

\* a task that waited was started after a failed task released its slot,
\* and another one after a successful task did
C6_Witness ==
  /\ Len(startOrder) >= n + 2
  /\ \E t \in TaskIds : tstate[t] = "released" /\ tout[t] = "err"
  /\ \E t \in TaskIds : tstate[t] = "released" /\ tout[t] = "ok"

(* ---------------------- convert(): pure helpers ------------------------ *)
\* strings are sequences of one-character strings
Digits == <<"0", "1", "2", "3", "4", "5", "6", "7", "8", "9">>
HexLower == <<"0", "1", "2", "3", "4", "5", "6", "7", "8", "9",
              "a", "b", "c", "d", "e", "f">>
UpperOf == [c \in {"a", "b", "c", "d", "e", "f", "g", "j", "n", "p", "r", "s", "t"} |->
              CASE c = "a" -> "A" [] c = "b" -> "B" [] c = "c" -> "C"
                [] c = "d" -> "D" [] c = "e" -> "E" [] c = "f" -> "F"
                [] c = "g" -> "G" [] c = "j" -> "J" [] c = "n" -> "N"
                [] c = "p" -> "P" [] c = "r" -> "R" [] c = "s" -> "S"
                [] c = "t" -> "T"]

\* String.prototype.toLowerCase, one character
LowerChar(c) ==
  IF \E l \in DOMAIN UpperOf : UpperOf[l] = c
  THEN CHOOSE l \in DOMAIN UpperOf : UpperOf[l] = c
  ELSE c
ToLowerCase(str) == [i \in 1..Len(str) |-> LowerChar(str[i])]

\* String.prototype.trim
RECURSIVE TrimStart(_)
TrimStart(str) ==
  IF Len(str) > 0 /\ Head(str) = " " THEN TrimStart(Tail(str)) ELSE str
RECURSIVE TrimEnd(_)
TrimEnd(str) ==
  IF Len(str) > 0 /\ str[Len(str)] = " "
  THEN TrimEnd(SubSeq(str, 1, Len(str) - 1)) ELSE str
Trim(str) == TrimEnd(TrimStart(str))

IsHexChar(c) == \E i \in 1..16 : HexLower[i] = LowerChar(c)
HexVal(c) == (CHOOSE i \in 1..16 : HexLower[i] = LowerChar(c)) - 1
\* parseInt(hex.slice(i, i + 2), 16), 0-based i
HexByteOneDigit(hex, i) == HexVal(hex[i + 1])

HexByte(hex, i) == 16 * HexVal(hex[i + 1]) + HexVal(hex[i + 2])

Transparent == <<"t", "r", "a", "n", "s", "p", "a", "r", "e", "n", "t">>

\* function parseBackground(input, fmt): the colour (alpha in 255ths),
\* whether it threw, and the console.warn calls it made
parseBackgroundEvenLength(input, fmt) ==
  LET str == Trim(ToLowerCase(input))
      hex == IF Len(str) > 0 /\ Head(str) = "#" THEN Tail(str) ELSE str
  IN IF str = Transparent \/ str = <<"#", "0", "0", "0", "0">>
     THEN IF fmt = <<"p", "n", "g">>
          THEN [thrown |-> FALSE, r |-> 0, g |-> 0, b |-> 0, a255 |-> 0, warn |-> 0]
          ELSE [thrown |-> FALSE, r |-> 255, g |-> 255, b |-> 255, a255 |-> 255, warn |-> 1]
     ELSE IF Len(hex) \notin {4, 6, 8} \/ \E i \in 1..Len(hex) : ~IsHexChar(hex[i])
          THEN [thrown |-> TRUE, r |-> 0, g |-> 0, b |-> 0, a255 |-> 0, warn |-> 0]
          ELSE [thrown |-> FALSE,
                r |-> HexByte(hex, 0), g |-> HexByte(hex, 2),
                b |-> IF Len(hex) >= 6 THEN HexByte(hex, 4) ELSE 0,
                a255 |-> IF Len(hex) = 8 THEN HexByte(hex, 6) ELSE 255,
                warn |-> 0]

parseBackground(input, fmt) ==
  LET str == Trim(ToLowerCase(input))
      hex == IF Len(str) > 0 /\ Head(str) = "#" THEN Tail(str) ELSE str
  IN IF str = Transparent \/ str = <<"#", "0", "0", "0", "0">>
     THEN IF fmt = <<"p", "n", "g">>
          THEN [thrown |-> FALSE, r |-> 0, g |-> 0, b |-> 0, a255 |-> 0, warn |-> 0]
          ELSE [thrown |-> FALSE, r |-> 255, g |-> 255, b |-> 255, a255 |-> 255, warn |-> 1]
     ELSE IF Len(hex) \notin {6, 8} \/ \E i \in 1..Len(hex) : ~IsHexChar(hex[i])
          THEN [thrown |-> TRUE, r |-> 0, g |-> 0, b |-> 0, a255 |-> 0, warn |-> 0]
          ELSE [thrown |-> FALSE,
                r |-> HexByte(hex, 0), g |-> HexByte(hex, 2), b |-> HexByte(hex, 4),
                a255 |-> IF Len(hex) = 8 THEN HexByte(hex, 6) ELSE 255,
                warn |-> 0]

\* the subtype in `data:image/${fmt === 'jpg' ? 'jpeg' : fmt};base64,...`
MimeOfVerbatim(fmt) == fmt

MimeOf(fmt) == IF fmt = <<"j", "p", "g">> THEN <<"j", "p", "e", "g">> ELSE fmt

\* ["png", "jpg", "jpeg"].includes(fmt)
FormatAccepted(fmt) ==
  fmt \in { <<"p", "n", "g">>, <<"j", "p", "g">>, <<"j", "p", "e", "g">> }

\* Math.max(1, first) and Math.min(totalPages, firstPage + maxPages - 1)
ResolveRangeOffByOne(first, maxPages, total) ==
  LET f == Max(1, first)
  IN [firstPage |-> f, lastPage |-> Min(total, f + maxPages)]

ResolveRange(first, maxPages, total) ==
  LET f == Max(1, first)
  IN [firstPage |-> f, lastPage |-> Min(total, f + maxPages - 1)]

\* a directory entry: <stem>-<num>.<ext>, num a sequence of characters
TempBaseName == "temp-pdf"
FileName(stem, num, ext) == [stem |-> stem, num |-> num, ext |-> ext]

\* name.match(/^temp-pdf-(\d+)\.png$/)
IsDigit(c) == \E i \in 1..10 : Digits[i] = c
MatchesRx(name, base) ==
  /\ name.stem = base
  /\ name.ext = "png"
  /\ Len(name.num) >= 1
  /\ \A i \in 1..Len(name.num) : IsDigit(name.num[i])

\* Number(m[1]) of a string of decimal digits
RECURSIVE NumberOf(_)
NumberOf(ds) ==
  IF Len(ds) = 0 THEN 0
  ELSE 10 * NumberOf(SubSeq(ds, 1, Len(ds) - 1))
       + ((CHOOSE i \in 1..10 : Digits[i] = ds[Len(ds)]) - 1)

\* Array.prototype.sort((a, b) => a.page - b.page): stable, ascending
\* sq: a sequence of [k |-> sort key, v |-> element]
RECURSIVE SortKeyed(_)
SortKeyed(sq) ==
  IF Len(sq) = 0 THEN <<>>
  ELSE LET rest == SortKeyed(SubSeq(sq, 1, Len(sq) - 1))
           x == sq[Len(sq)]
       IN \* stable: x goes after the equal keys that came before it
          IF \A i \in 1..Len(rest) : rest[i].k <= x.k
          THEN Append(rest, x)
          ELSE LET j == CHOOSE j \in 1..Len(rest) :
                          /\ rest[j].k > x.k
                          /\ \A i \in 1..(j - 1) : rest[i].k <= x.k
               IN SubSeq(rest, 1, j - 1) \o <<x>> \o SubSeq(rest, j, Len(rest))
Unkeyed(sq) == [i \in 1..Len(sq) |-> sq[i].v]
Reverse(sq) == [i \in 1..Len(sq) |-> sq[Len(sq) + 1 - i]]

KeyedByPage(fs) == [i \in 1..Len(fs) |-> [k |-> fs[i].page, v |-> fs[i]]]

\* async function listPagePngs(dir, base, first, last), given readdir's entries
listPagePngsNoRangeFilter(entries, base, first, last) ==
  LET matched == SelectSeq(entries, LAMBDA e : MatchesRx(e, base))
      mapped == [i \in 1..Len(matched) |->
                   [name |-> matched[i], page |-> NumberOf(matched[i].num)]]
  IN Unkeyed(SortKeyed(KeyedByPage(mapped)))

listPagePngs(entries, base, first, last) ==
  LET matched == SelectSeq(entries, LAMBDA e : MatchesRx(e, base))
      mapped == [i \in 1..Len(matched) |->
                   [name |-> matched[i], page |-> NumberOf(matched[i].num)]]
      inRange == SelectSeq(mapped, LAMBDA f : f.page >= first /\ f.page <= last)
  IN Unkeyed(SortKeyed(KeyedByPage(inRange)))

\* results.sort((a, b) => a.pageNumber - b.pageNumber)
KeyedByPageNumber(rs) == [i \in 1..Len(rs) |-> [k |-> rs[i].pageNumber, v |-> rs[i]]]
SortResultsDescending(rs) == Reverse(Unkeyed(SortKeyed(KeyedByPageNumber(rs))))
SortResults(rs) == Unkeyed(SortKeyed(KeyedByPageNumber(rs)))

(* -------------------------- convert(): inputs -------------------------- *)
Png == <<"p", "n", "g">>
JpgUpper == <<"J", "P", "G">>
Jpeg == <<"j", "p", "e", "g">>
Gif == <<"g", "i", "f">>
OpaqueWhite == <<"#", "f", "f", "f", "f", "f", "f", "f", "f">>
NotAColor == <<"r", "e", "d">>

DefaultSize == 896
DefaultDpi == 700
DefaultConcurrency == 4

\* the option objects convert() is called with
Requests ==
  [first : 0..MaxOpt, maxPages : 0..MaxOpt,
   format : {Png, JpgUpper, Gif}, bg : {Transparent, NotAColor},
   concurrency : {-1, 0, 1, 2}, size : {DefaultSize}, dpi : {DefaultDpi}]
  \cup
  [first : {1}, maxPages : {MaxOpt}, format : {Png}, bg : {OpaqueWhite},
   concurrency : {0}, size : {0, DefaultSize}, dpi : {0, DefaultDpi}]
  \cup
  [first : {1, MaxOpt}, maxPages : {1, MaxOpt}, format : {Jpeg}, bg : {Transparent, NotAColor},
   concurrency : {1}, size : {DefaultSize}, dpi : {DefaultDpi}]

\* what pdftocairo can leave in the scratch directory: the files of any set
\* of pages, numbered with one zero-padding width, and possibly another file
PageDigits(p, w) == IF w = 1 THEN <<Digits[p + 1]>> ELSE <<"0", Digits[p + 1]>>
RenderedName(p, w) == FileName(TempBaseName, PageDigits(p, w), "png")
Stray == FileName(TempBaseName, <<"1">>, "txt")
RenderOutcomes ==
  { { RenderedName(p, w) : p \in P } \cup S :
      w \in 1..2, P \in SUBSET Pages, S \in SUBSET {Stray} }

\* the orders in which fs.readdir can list a directory
ListingsOf(S) ==
  { sq \in [1..Cardinality(S) -> S] : Range(sq) = S }

(* -------------------------- convert(): actions ------------------------- *)
CInit ==
  /\ opts \in Requests
  /\ doc \in Docs
  /\ duo = NoDuo
  /\ bg = NoBg
  /\ cli = NoCli
  /\ n = 0
  /\ LimiterIdle
  /\ pc = "start"
  /\ tempDir = "none"
  /\ dirFiles = {}
  /\ totalPages = 0 /\ firstPage = 0 /\ lastPage = 0
  /\ files = <<>>
  /\ results = <<>>
  /\ pending = "none"
  /\ outcome = "pending"
  /\ err = "none"
  /\ calls = NoCalls
  /\ warned = 0

\* a throw inside the try block: the finally block calls fs.rm
Throw(e) ==
  /\ pending' = "reject"
  /\ err' = e
  /\ pc' = "rm"

\* const tempDir = await fs.mkdtemp(...), before the try block
MkdtempOkValidating ==
  /\ pc = "start"
  /\ tempDir' = "exists"
  /\ IF FormatAccepted(ToLowerCase(opts.format))
     THEN /\ calls' = [calls EXCEPT !.pdfinfo = @ + 1]
          /\ pc' = "pdfinfo"
          /\ UNCHANGED <<pending, err>>
     ELSE /\ Throw("InvalidFormat")
          /\ UNCHANGED calls
  /\ UNCHANGED limvars
  /\ UNCHANGED <<opts, doc, duo, bg, cli, dirFiles, totalPages, firstPage, lastPage, files, jobpc,
                 recs, results, outcome, warned>>

MkdtempOk ==
  /\ pc = "start"
  /\ tempDir' = "exists"
  /\ calls' = [calls EXCEPT !.pdfinfo = @ + 1]   \* getPdfPages(pdfAbs) is called
  /\ pc' = "pdfinfo"
  /\ UNCHANGED limvars
  /\ UNCHANGED <<opts, doc, duo, bg, cli, dirFiles, totalPages, firstPage, lastPage, files, jobpc,
                 recs, results, pending, outcome, err, warned>>

MkdtempFail ==
  /\ pc = "start"
  /\ outcome' = "rejected"
  /\ err' = "mkdtemp"
  /\ pc' = "done"
  /\ UNCHANGED limvars
  /\ UNCHANGED <<opts, doc, duo, bg, cli, tempDir, dirFiles, totalPages, firstPage, lastPage, files,
                 jobpc, recs, results, pending, calls, warned>>

\* getPdfPages: execFile("pdfinfo") rejected (pdfinfo is not installed, or
\* it exited with a non-zero code, as it does for a path it cannot open and
\* for a file it cannot read as a PDF); the catch block throws
\* "Failed to run pdfinfo. Make sure poppler-utils is installed."
PdfinfoFailRetry ==
  /\ pc = "pdfinfo"
  /\ IF calls.pdfinfo < 2
     THEN /\ calls' = [calls EXCEPT !.pdfinfo = @ + 1]
          /\ UNCHANGED <<pc, pending, err>>
     ELSE /\ Throw("pdfinfo")
          /\ UNCHANGED calls
  /\ UNCHANGED limvars
  /\ UNCHANGED <<opts, doc, duo, bg, cli, tempDir, dirFiles, totalPages, firstPage, lastPage, files,
                 jobpc, recs, results, outcome, warned>>

PdfinfoFail ==
  /\ pc = "pdfinfo"
  /\ Throw("pdfinfo")
  /\ UNCHANGED limvars
  /\ UNCHANGED <<opts, doc, duo, bg, cli, tempDir, dirFiles, totalPages, firstPage, lastPage, files,
                 jobpc, recs, results, outcome, calls, warned>>

\* getPdfPages returned tp: pdfinfo exited with 0 and printed the page count
\* of a PDF, or (for a damaged file) no usable Pages: line, which gives 0;
\* src/lib.js 64-87
PdfinfoDone(tp) ==
  /\ pc = "pdfinfo"
  /\ \/ doc = "valid" /\ tp >= 1
     \/ doc = "notPdf" /\ tp = 0
  /\ totalPages' = tp
  /\ IF tp <= 0
     THEN /\ Throw("InvalidDocument")
          /\ UNCHANGED <<firstPage, lastPage, calls>>
     ELSE LET rg == ResolveRange(opts.first, opts.maxPages, tp)
          IN /\ firstPage' = rg.firstPage
             /\ lastPage' = rg.lastPage
             /\ IF rg.lastPage < rg.firstPage
                THEN /\ Throw("NoPagesInRange")
                     /\ UNCHANGED calls
                ELSE /\ calls' = [calls EXCEPT !.render = @ + 1]  \* poppler.pdfToCairo
                     /\ pc' = "render"
                     /\ UNCHANGED <<pending, err>>
  /\ UNCHANGED limvars
  /\ UNCHANGED <<opts, doc, duo, bg, cli, tempDir, dirFiles, files, jobpc, recs, results, outcome, warned>>

\* poppler.pdfToCairo rejected
RenderFail ==
  /\ pc = "render"
  /\ Throw("RenderError")
  /\ UNCHANGED limvars
  /\ UNCHANGED <<opts, doc, duo, bg, cli, tempDir, dirFiles, totalPages, firstPage, lastPage, files,
                 jobpc, recs, results, outcome, calls, warned>>

\* poppler.pdfToCairo resolved, leaving d in the scratch directory;
\* listPagePngs calls fs.readdir
RenderDone(d) ==
  /\ pc = "render"
  /\ dirFiles' = d
  /\ pc' = "readdir"
  /\ UNCHANGED limvars
  /\ UNCHANGED <<opts, doc, duo, bg, cli, tempDir, totalPages, firstPage, lastPage, files, jobpc,
                 recs, results, pending, outcome, err, calls, warned>>

\* limit(fn) for each of the k files in turn (files.map, src/lib.js 105-106)
RECURSIVE SubmitAll(_, _)
SubmitAll(lim, k) ==
  IF k = 0 THEN [active |-> 0, queue |-> <<>>, started |-> <<>>]
  ELSE LET prev == SubmitAll(lim, k - 1)
           r == limit(lim, prev.active, prev.queue, k)
       IN [active |-> r.active, queue |-> r.queue,
           started |-> prev.started \o r.started]

\* Number(opts.concurrency) || 4
LimitOfUnbounded(c) == MaxTasks + 1

LimitOf(c) == IF c = 0 THEN DefaultConcurrency ELSE c

\* readdir returned: the rest of listPagePngs, then src/lib.js 92-141 up to
\* the await of Promise.all
Prepare(entries) ==
  /\ pc = "readdir"
  /\ LET fl == listPagePngs(entries, TempBaseName, firstPage, lastPage)
         fmt == ToLowerCase(opts.format)
         parsed == parseBackground(opts.bg, fmt)
         lim == LimitOf(opts.concurrency)
         r == SubmitAll(lim, Len(fl))
     IN /\ files' = fl
        /\ IF ~FormatAccepted(fmt)
           THEN /\ Throw("InvalidFormat")
                /\ UNCHANGED limvars
                /\ UNCHANGED <<jobpc, warned, bg>>
           ELSE /\ warned' = warned + parsed.warn
                /\ bg' = parsed
                /\ IF parsed.thrown
                   THEN /\ Throw("InvalidColor")
                        /\ UNCHANGED limvars
                        /\ UNCHANGED jobpc
                   ELSE /\ n' = lim
                        /\ active' = r.active
                        /\ queue' = r.queue
                        /\ tstate' = Started(r, [t \in TaskIds |->
                                        IF t <= Len(fl) THEN "queued" ELSE "none"])
                        /\ starts' = Counted(r, starts)
                        /\ startOrder' = r.started
                        /\ pout' = [t \in TaskIds |->
                                      IF t <= Len(fl) THEN "pending" ELSE "none"]
                        /\ nsub' = Len(fl)
                        /\ jobpc' = [t \in TaskIds |->
                                       IF t \in Range(r.started) THEN "img" ELSE "none"]
                        /\ pc' = "await"
                        /\ UNCHANGED <<tout, settleOrder, pending, err>>
  /\ UNCHANGED <<opts, doc, duo, cli, tempDir, dirFiles, totalPages, firstPage, lastPage,
                 recs, results, outcome, calls>>

\* a page job: sharp has produced the buffer; poppler.pdfToText is called
ImgDone(t) ==
  /\ pc \notin {"limiter"}
  /\ tstate[t] = "running" /\ jobpc[t] = "img"
  /\ tempDir = "exists" /\ files[t].name \in dirFiles
  /\ jobpc' = [jobpc EXCEPT ![t] = "text"]
  /\ calls' = [calls EXCEPT !.text[files[t].page] = @ + 1]
  /\ UNCHANGED limvars
  /\ UNCHANGED <<pc, opts, doc, duo, bg, cli, tempDir, dirFiles, totalPages, firstPage, lastPage,
                 files, recs, results, pending, outcome, err, warned>>

\* a page job rejects: sharp failed, or pdfToText failed
JobFail(t) ==
  /\ pc \notin {"limiter"}
  /\ tstate[t] = "running" /\ jobpc[t] \in {"img", "text"}
  /\ tstate' = [tstate EXCEPT ![t] = "settled"]
  /\ tout' = [tout EXCEPT ![t] = "err"]
  /\ jobpc' = [jobpc EXCEPT ![t] = "done"]
  /\ UNCHANGED <<n, active, queue, pout, starts, startOrder, nsub, settleOrder>>
  /\ UNCHANGED <<pc, opts, doc, duo, bg, cli, tempDir, dirFiles, totalPages, firstPage, lastPage,
                 files, recs, results, pending, outcome, err, calls, warned>>

\* a page job returns its record (src/lib.js 131-138)
TextDoneLastPage(t) ==
  /\ pc \notin {"limiter"}
  /\ tstate[t] = "running" /\ jobpc[t] = "text"
  /\ tstate' = [tstate EXCEPT ![t] = "settled"]
  /\ tout' = [tout EXCEPT ![t] = "ok"]
  /\ jobpc' = [jobpc EXCEPT ![t] = "done"]
  /\ recs' = [recs EXCEPT ![t] = [pageNumber |-> files[t].page,
                                  file |-> files[t].name,
                                  textPage |-> files[Len(files)].page,
                                  mime |-> MimeOf(ToLowerCase(opts.format))]]
  /\ UNCHANGED <<n, active, queue, pout, starts, startOrder, nsub, settleOrder>>
  /\ UNCHANGED <<pc, opts, doc, duo, bg, cli, tempDir, dirFiles, totalPages, firstPage, lastPage,
                 files, results, pending, outcome, err, calls, warned>>

TextDone(t) ==
  /\ pc \notin {"limiter"}
  /\ tstate[t] = "running" /\ jobpc[t] = "text"
  /\ tstate' = [tstate EXCEPT ![t] = "settled"]
  /\ tout' = [tout EXCEPT ![t] = "ok"]
  /\ jobpc' = [jobpc EXCEPT ![t] = "done"]
  /\ recs' = [recs EXCEPT ![t] = [pageNumber |-> files[t].page,
                                  file |-> files[t].name,
                                  textPage |-> files[t].page,
                                  mime |-> MimeOf(ToLowerCase(opts.format))]]
  /\ UNCHANGED <<n, active, queue, pout, starts, startOrder, nsub, settleOrder>>
  /\ UNCHANGED <<pc, opts, doc, duo, bg, cli, tempDir, dirFiles, totalPages, firstPage, lastPage,
                 files, results, pending, outcome, err, calls, warned>>

\* Promise.all fulfils: every promise fulfilled; values in the order of files;
\* results.sort; return; the finally block calls fs.rm
AllFulfilled ==
  /\ pc = "await"
  /\ \A t \in 1..Len(files) : pout[t] = "ok"
  /\ results' = SortResults([t \in 1..Len(files) |-> recs[t]])
  /\ pending' = "resolve"
  /\ pc' = "rm"
  /\ UNCHANGED limvars
  /\ UNCHANGED <<opts, doc, duo, bg, cli, tempDir, dirFiles, totalPages, firstPage, lastPage, files,
                 jobpc, recs, outcome, err, calls, warned>>

\* Promise.all rejects as soon as one promise has rejected
AllRejected ==
  /\ pc = "await"
  /\ \E t \in 1..Len(files) : pout[t] = "err"
  /\ Throw("PageError")
  /\ UNCHANGED limvars
  /\ UNCHANGED <<opts, doc, duo, bg, cli, tempDir, dirFiles, totalPages, firstPage, lastPage, files,
                 jobpc, recs, results, outcome, calls, warned>>

Settled == IF pending = "resolve" THEN "resolved" ELSE "rejected"

\* finally: await fs.rm(tempDir, {recursive, force}) succeeded
RmOkNoRemove ==
  /\ pc = "rm"
  /\ calls' = [calls EXCEPT !.rm = @ + 1]
  /\ outcome' = Settled
  /\ pc' = "done"
  /\ UNCHANGED limvars
  /\ UNCHANGED <<opts, doc, duo, bg, cli, tempDir, dirFiles, totalPages, firstPage, lastPage, files,
                 jobpc, recs, results, pending, err, warned>>

RmOk ==
  /\ pc = "rm"
  /\ tempDir' = "removed"
  /\ dirFiles' = {}
  /\ calls' = [calls EXCEPT !.rm = @ + 1]
  /\ outcome' = Settled
  /\ pc' = "done"
  /\ UNCHANGED limvars
  /\ UNCHANGED <<opts, doc, duo, bg, cli, totalPages, firstPage, lastPage, files, jobpc, recs,
                 results, pending, err, warned>>

\* finally: fs.rm threw; catch (err) { console.warn(...) }
RmFail ==
  /\ pc = "rm"
  /\ warned' = warned + 1
  /\ calls' = [calls EXCEPT !.rm = @ + 1, !.rmFailed = @ + 1]
  /\ outcome' = Settled
  /\ pc' = "done"
  /\ UNCHANGED limvars
  /\ UNCHANGED <<opts, doc, duo, bg, cli, tempDir, dirFiles, totalPages, firstPage, lastPage, files,
                 jobpc, recs, results, pending, err>>

Next ==
  \/ MkdtempOk
  \/ MkdtempFail
  \/ PdfinfoFail
  \/ \E tp \in 0..MaxTotal : PdfinfoDone(tp)
  \/ RenderFail
  \/ pc = "render" /\ \E d \in RenderOutcomes : RenderDone(d)
  \/ pc = "readdir" /\ \E entries \in ListingsOf(dirFiles) : Prepare(entries)
  \/ \E t \in TaskIds : ImgDone(t)
  \/ \E t \in TaskIds : JobFail(t)
  \/ \E t \in TaskIds : TextDone(t)
  \/ \E t \in TaskIds : ThenReaction(t)
  \/ \E t \in TaskIds : FinallyReaction(t)
  \/ AllFulfilled
  \/ AllRejected
  \/ RmOk
  \/ RmFail

Spec == CInit /\ [][Next]_vars

(* ------------------------- convert(): properties ----------------------- *)
PageNumbers(rs) == [i \in 1..Len(rs) |-> rs[i].pageNumber]
FailedJobs == { t \in TaskIds : tout[t] = "err" }
InvalidFormat(o) == ~FormatAccepted(ToLowerCase(o.format))
InvalidBackground(o) == parseBackground(o.bg, ToLowerCase(o.format)).thrown

\* C1: whenever convert returns, for every outcome of the render step, the
\* page numbers of the returned records are exactly resolvedFirst..
\* resolvedLast: none missing, none outside the range, none twice.
C1_ExactRange ==
  outcome = "resolved" =>
    /\ Range(PageNumbers(results)) = firstPage..lastPage
    /\ Len(results) = lastPage - firstPage + 1

\* C2: the sequence convert returns is strictly ascending by pageNumber,
\* whatever the order in which the page jobs completed; it is the records
\* of the files in the order of the files, not in completion order.
C2_StrictlyAscending ==
  outcome = "resolved" =>
    /\ \A i, j \in 1..Len(results) :
         i < j => results[i].pageNumber < results[j].pageNumber
    /\ Len(results) = Len(files)
    /\ \A i \in 1..Len(results) : results[i] = recs[i]

\* convert returned two records or more whose jobs completed out of order
C2_Witness ==
  /\ outcome = "resolved"
  /\ Len(results) >= 2
  /\ \E i, j \in 1..Len(settleOrder) :
       i < j /\ settleOrder[i] > settleOrder[j]

\* C7: resolvedFirst = max(1, first), resolvedLast = min(totalPages,
\* resolvedFirst + maxPages - 1); the no-pages error exactly when
\* resolvedLast < resolvedFirst, that is first > totalPages or maxPages <= 0;
\* otherwise convert goes on to render
\* with 1 <= resolvedFirst <= resolvedLast <= totalPages and at most
\* maxPages pages.
C7_RangeResolution ==
  /\ totalPages >= 1 =>
       /\ firstPage = (IF opts.first < 1 THEN 1 ELSE opts.first)
       /\ lastPage = (IF firstPage + opts.maxPages - 1 > totalPages
                      THEN totalPages ELSE firstPage + opts.maxPages - 1)
       /\ (err = "NoPagesInRange") <=> (lastPage < firstPage)
       /\ (lastPage < firstPage) <=> (opts.first > totalPages \/ opts.maxPages <= 0)
       /\ (calls.render = 1) <=> (lastPage >= firstPage)
       /\ calls.render = 1 =>
            /\ 1 <= firstPage /\ firstPage <= lastPage /\ lastPage <= totalPages
            /\ lastPage - firstPage + 1 <= opts.maxPages
  /\ err = "NoPagesInRange" => totalPages >= 1 /\ calls.render = 0
  /\ LET a == ResolveRange(10, 3, 5) IN a.lastPage < a.firstPage
  /\ ResolveRange(3, 10, 5) = [firstPage |-> 3, lastPage |-> 5]

\* the render step was reached with a range that the page count cut short
C7_Witness ==
  /\ calls.render = 1
  /\ opts.first = 2 /\ opts.maxPages = 3 /\ totalPages = 2
  /\ firstPage = 2 /\ lastPage = 2

\* C8: all-or-nothing. If the render step or a page job fails, convert
\* rejects and returns no record; convert resolves only when the job of
\* every page of the range has succeeded, and then with the complete list.
C8_AllOrNothing ==
  /\ outcome = "resolved" =>
       /\ FailedJobs = {}
       /\ \A p \in firstPage..lastPage :
            /\ \E t \in 1..Len(files) : files[t].page = p /\ tout[t] = "ok"
            /\ \E i \in 1..Len(results) : results[i].pageNumber = p
  /\ (outcome # "pending" /\ (err = "RenderError" \/ \E t \in TaskIds : pout[t] = "err"
                              \/ err = "PageError")) =>
       outcome = "rejected" /\ results = <<>>

\* C9 as stated: the scratch directory a call created no longer exists when
\* the call settles, on every exit path.
C9_Original ==
  outcome # "pending" => tempDir # "exists"

\* C9 amended: on every exit path after the scratch directory was created,
\* convert calls fs.rm on it exactly once before it settles; the directory no
\* longer exists when the call settles unless that removal itself failed, in
\* which case convert has printed a warning and settles with the outcome it
\* had.
C9_Amended ==
  outcome # "pending" =>
    \/ err = "mkdtemp" /\ tempDir = "none" /\ calls.rm = 0
    \/ /\ calls.rm = 1
       /\ \/ tempDir = "removed" /\ calls.rmFailed = 0
          \/ tempDir = "exists" /\ calls.rmFailed = 1 /\ warned >= 1

\* convert rejected because a page job failed, and the directory is gone
C9_Witness ==
  /\ outcome = "rejected" /\ err = "PageError"
  /\ tempDir = "removed"
  /\ FailedJobs # {}

InvalidRequest(o) ==
  \/ o.first < 1 \/ o.maxPages < 1 \/ o.size <= 0 \/ o.dpi <= 0
  \/ InvalidFormat(o) \/ InvalidBackground(o) \/ o.concurrency < 1

\* C10 as stated: every field of the request is validated before any work
\* begins: a request with an invalid field fails without a scratch directory
\* created, the page-count tool run or a page rendered.
C10_Original ==
  (InvalidRequest(opts) /\ outcome # "pending") =>
    /\ outcome = "rejected"
    /\ tempDir = "none"
    /\ calls.pdfinfo = 0
    /\ calls.render = 0

\* C10 amended: request fields are checked only after work has begun. When
\* convert fails with the format or the background error, the scratch
\* directory was created, the page-count tool run and the render step run;
\* when it fails with the empty-range error (maxPages < 1, or first beyond
\* the last page), the scratch directory was created and the page-count tool
\* run, and no page was rendered. first < 1, size, dpi and concurrency are
\* not validated by convert.
C10_Amended ==
  /\ err \in {"InvalidFormat", "InvalidColor"} =>
       /\ tempDir # "none" /\ calls.pdfinfo = 1 /\ calls.render = 1
       /\ InvalidFormat(opts) \/ InvalidBackground(opts)
  /\ err = "NoPagesInRange" =>
       tempDir # "none" /\ calls.pdfinfo = 1 /\ calls.render = 0
  /\ (outcome = "rejected" /\ err # "mkdtemp") => calls.pdfinfo = 1

\* a request with an invalid format was rejected after the pages were rendered
C10_Witness ==
  /\ outcome = "rejected" /\ err = "InvalidFormat"
  /\ InvalidFormat(opts)
  /\ calls.render = 1 /\ calls.pdfinfo = 1

(* ------------------ convert(): the document at pathToPdf ---------------- *)
\* the errors convert throws for a document it cannot use: "Could not
\* determine page count (invalid or encrypted PDF?)", src/lib.js 65-67
InvalidDocumentErrors == {"InvalidDocument"}
\* the errors whose code or message names a missing file (ENOENT, "no such
\* file"): none of the errors convert creates itself does; the rejection of
\* fs.mkdtemp is about the scratch directory, not about pathToPdf
MissingFileErrors == {}

\* C11: convert fails with the invalid-document error whenever the page
\* count is reported as <= 0, and a file that is not a valid PDF makes convert
\* reject with an invalid-document error and not with an error of another
\* kind (the scratch directory could be created).
C11_InvalidDocumentError ==
  /\ (pc \notin {"start", "pdfinfo"} /\ err \notin {"mkdtemp", "pdfinfo"} /\ totalPages <= 0)
       => (err = "InvalidDocument" /\ calls.render = 0 /\ outcome # "resolved")
  /\ (doc = "notPdf" /\ outcome # "pending" /\ err # "mkdtemp")
       => (outcome = "rejected" /\ err \in InvalidDocumentErrors)

\* C12: convert called with a path at which no file exists rejects with an
\* error that identifies the missing file (code ENOENT, or a message matching
\* ENOENT / "no such file").
C12_MissingFileError ==
  (doc = "missing" /\ outcome # "pending" /\ err # "mkdtemp")
    => (outcome = "rejected" /\ err \in MissingFileErrors)

(* -------------------- parseBackground(): bounded inputs ----------------- *)
\* longest run of characters after the optional "#"
MaxLen == 9

TransparentUpper == <<"T", "R", "A", "N", "S", "P", "A", "R", "E", "N", "T">>
TransparentMixed == <<"T", "r", "a", "n", "s", "p", "a", "r", "e", "n", "t">>
Keywords ==
  { Transparent, TransparentUpper, TransparentMixed,
    SubSeq(Transparent, 1, 10), Append(Transparent, "t"), <<"#">> \o Transparent }

\* len times the character c, with the character at position k (if any)
\* replaced by d
Run(c, d, k, len) == [i \in 1..len |-> IF i = k THEN d ELSE c]
Bodies ==
  { Run(c, d, k, len) : c \in {"0", "a", "F"}, d \in {"0", "9", "A", "f", "g", " ", "#"},
                        k \in 0..MaxLen, len \in 0..MaxLen }
      \cup Keywords
BgInputs ==
  { lead \o sharp \o body \o trail :
      lead \in {<<>>, <<" ">>}, sharp \in {<<>>, <<"#">>, <<"#", "#">>},
      body \in Bodies, trail \in {<<>>, <<" ">>} }
\* fmt is opts.format.toLowerCase() of a request convert let through
BgFormats == { <<"p", "n", "g">>, <<"j", "p", "g">>, <<"j", "p", "e", "g">> }

BgInit ==
  /\ n = 0
  /\ LimiterIdle
  /\ pc = "bg.call"
  /\ opts \in { [NoOpts EXCEPT !.bg = input, !.format = fmt] :
                  input \in BgInputs, fmt \in BgFormats }
  /\ doc = "valid"
  /\ duo = NoDuo
  /\ bg = NoBg
  /\ cli = NoCli
  /\ tempDir = "none"
  /\ dirFiles = {}
  /\ totalPages = 0 /\ firstPage = 0 /\ lastPage = 0
  /\ files = <<>>
  /\ results = <<>>
  /\ pending = "none"
  /\ outcome = "pending"
  /\ err = "none"
  /\ calls = NoCalls
  /\ warned = 0

\* one call parseBackground(opts.bg, fmt): it returns a colour or throws
BgParse ==
  /\ pc = "bg.call"
  /\ LET parsed == parseBackground(opts.bg, opts.format)
     IN /\ bg' = parsed
        /\ warned' = warned + parsed.warn
        /\ err' = IF parsed.thrown THEN "InvalidColor" ELSE err
  /\ pc' = "bg.done"
  /\ UNCHANGED limvars
  /\ UNCHANGED <<opts, doc, duo, cli, tempDir, dirFiles, totalPages, firstPage, lastPage, files,
                 jobpc, recs, results, pending, outcome, calls>>

BgNext == BgParse

BgSpec == BgInit /\ [][BgNext]_vars

(* ------------------- parseBackground(): properties ---------------------- *)
HexDigits == {"0", "1", "2", "3", "4", "5", "6", "7", "8", "9",
              "a", "b", "c", "d", "e", "f", "A", "B", "C", "D", "E", "F"}
\* the text is made of exactly 6 or exactly 8 hexadecimal characters
IsHexColour(text) ==
  /\ Len(text) \in {6, 8}
  /\ \A i \in 1..Len(text) : text[i] \in HexDigits
StripSharp(text) == IF Len(text) > 0 /\ text[1] = "#" THEN Tail(text) ELSE text
\* the two texts differ at most in the case of their letters
SameIgnoringCase(a, b) ==
  /\ Len(a) = Len(b)
  /\ \A i \in 1..Len(a) :
       \/ a[i] = b[i]
       \/ a[i] \in DOMAIN UpperOf /\ UpperOf[a[i]] = b[i]
       \/ b[i] \in DOMAIN UpperOf /\ UpperOf[b[i]] = a[i]
\* the inputs whose text between the surrounding blanks is core
HasCore(input, core) ==
  \E i \in 0..Len(input), j \in 0..Len(input) :
    /\ i <= j
    /\ \A k \in 1..i : input[k] = " "
    /\ \A k \in (j + 1)..Len(input) : input[k] = " "
    /\ core = SubSeq(input, i + 1, j)
    /\ (i < j => input[i + 1] # " " /\ input[j] # " ")
CoresOf(input) ==
  { SubSeq(input, i + 1, j) : i \in 0..Len(input), j \in 0..Len(input) }
TransparentAlias == <<"#", "0", "0", "0", "0">>
IsTransparentToken(core) ==
  SameIgnoringCase(core, Transparent) \/ core = TransparentAlias

\* C13 as stated: parseBackground fails for every input that is not the
\* token 'transparent' and whose text after stripping one leading '#' is not
\* exactly 6 or 8 hexadecimal characters, and accepts every 6- or 8-digit hex
\* string, with or without '#', in any letter case.
C13_Original ==
  pc = "bg.done" =>
    (bg.thrown <=> ~(opts.bg = Transparent \/ IsHexColour(StripSharp(opts.bg))))

\* C13 amended: parseBackground fails exactly for the inputs that, once the
\* surrounding blanks are dropped and letter case is ignored, are neither
\* 'transparent' nor '#0000' and whose text after stripping one leading '#'
\* is not exactly 6 or 8 hexadecimal characters.
C13_Amended ==
  pc = "bg.done" =>
    LET accepted == \E core \in CoresOf(opts.bg) :
                      /\ HasCore(opts.bg, core)
                      /\ IsTransparentToken(core) \/ IsHexColour(StripSharp(core))
    IN /\ bg.thrown <=> ~accepted
       /\ bg.thrown => err = "InvalidColor" /\ warned = 0

\* a 3-digit colour is rejected, and an 8-digit one in upper case, between
\* blanks, is accepted
C13_Witness ==
  /\ pc = "bg.done"
  /\ \/ bg.thrown /\ opts.bg = <<"#", "a", "a", "a">>
     \/ ~bg.thrown /\ opts.bg = <<" ", "#", "F", "F", "F", "F", "A", "F", "F", "F", " ">>

\* the two hexadecimal digits (lower case) of a channel value
ByteToHex(v) == <<HexLower[(v \div 16) + 1], HexLower[(v % 16) + 1]>>

\* C14: parseBackground returns, for 'transparent' with format png, alpha 0;
\* for 'transparent' with format jpg or jpeg, opaque white with exactly one
\* warning and no failure; for #RRGGBB the three channel values with alpha 1;
\* for #RRGGBBAA the three channel values with alpha AA/255 (alpha is kept
\* in 255ths). Every returned colour has its channels in 0..255 and its
\* alpha in [0,1].
C14_ReturnedColour ==
  (pc = "bg.done" /\ ~bg.thrown) =>
    LET hex == ToLowerCase(StripSharp(Trim(opts.bg)))
    IN /\ bg.r \in 0..255 /\ bg.g \in 0..255 /\ bg.b \in 0..255 /\ bg.a255 \in 0..255
       /\ (opts.bg = Transparent /\ opts.format = <<"p", "n", "g">>)
            => (bg.a255 = 0 /\ warned = 0)
       /\ (opts.bg = Transparent /\ opts.format # <<"p", "n", "g">>)
            => (bg.r = 255 /\ bg.g = 255 /\ bg.b = 255 /\ bg.a255 = 255 /\ warned = 1)
       /\ IsHexColour(hex)
            => /\ ByteToHex(bg.r) = SubSeq(hex, 1, 2)
               /\ ByteToHex(bg.g) = SubSeq(hex, 3, 4)
               /\ ByteToHex(bg.b) = SubSeq(hex, 5, 6)
               /\ Len(hex) = 6 => bg.a255 = 255
               /\ Len(hex) = 8 => ByteToHex(bg.a255) = SubSeq(hex, 7, 8)
               /\ warned = 0

\* 'transparent' for a jpeg came back as opaque white with one warning, and
\* "#FFFFAFFF" came back with blue = 0xAF
C14_Witness ==
  /\ pc = "bg.done"
  /\ ~bg.thrown
  /\ \/ opts.bg = Transparent /\ opts.format = <<"j", "p", "e", "g">> /\ warned = 1
     \/ opts.bg = <<"#", "F", "F", "F", "F", "A", "F", "F", "F">> /\ bg.b = 175

(* ---------------------- convert(): formats and errors ------------------- *)
\* the page range of the request is not empty in a document of totalPages
NonEmptyRange == totalPages >= 1 /\ firstPage <= lastPage
\* the collaborators (mkdtemp, pdfinfo, pdftocairo) all did their part
CollaboratorsFine == err \notin {"mkdtemp", "pdfinfo", "RenderError"}

\* C15: for a valid document with a non-empty page range, convert accepts
\* exactly the formats png, jpg and jpeg, compared case-insensitively, and
\* fails with the 'Format must be' error for every other token; every
\* returned image is tagged image/png for png and image/jpeg for jpg and jpeg.
C15_Formats ==
  LET token == opts.format
      isPng == SameIgnoringCase(token, Png)
      isJpeg == SameIgnoringCase(token, <<"j", "p", "g">>) \/ SameIgnoringCase(token, Jpeg)
  IN /\ (doc = "valid" /\ NonEmptyRange /\ CollaboratorsFine /\ outcome # "pending")
          => /\ err = "InvalidFormat" <=> ~(isPng \/ isJpeg)
             /\ err = "InvalidFormat" => outcome = "rejected"
     /\ outcome = "resolved"
          => \A i \in 1..Len(results) :
               /\ isPng => results[i].mime = Png
               /\ isJpeg => results[i].mime = Jpeg
               /\ isPng \/ isJpeg

\* convert returned a page for format 'JPG', tagged image/jpeg
C15_Witness ==
  /\ outcome = "resolved" /\ opts.format = JpgUpper
  /\ Len(results) >= 1 /\ results[1].mime = Jpeg

\* the error convert reports for the first defect of the request, in the
\* order document, page range, format, background; "none" without a defect
FirstDefect(documentError) ==
  IF doc # "valid" THEN documentError
  ELSE IF lastPage < firstPage THEN {"NoPagesInRange"}
  ELSE IF InvalidFormat(opts) THEN {"InvalidFormat"}
  ELSE IF InvalidBackground(opts) THEN {"InvalidColor"}
  ELSE {"none", "PageError"}
\* convert has settled and no collaborator failed for a reason other than
\* the request: the scratch directory was created, pdfinfo ran on a valid
\* document, pdftocairo rendered
SettledOnRequest ==
  /\ outcome # "pending"
  /\ err \notin {"mkdtemp", "RenderError"}
  /\ ~(doc = "valid" /\ err = "pdfinfo")

\* C16: error precedence in convert: when a request has several defects, the
\* error reported is the first in the order invalid document (page count),
\* empty page range, invalid format, invalid background; an invalid document
\* with an invalid format or background reports the invalid-document error,
\* a valid document with an invalid format or background reports the format
\* or background error.
C16_Precedence ==
  SettledOnRequest => err \in FirstDefect(InvalidDocumentErrors)

(* -------------------- convert(): rasterization and jobs ----------------- *)
\* the pages whose rasterization is in flight: the one pdfToCairo call
\* renders firstPage..lastPage (src/lib.js 80-87); the page jobs only read
\* the files it left
RasterInFlight == IF pc = "render" THEN firstPage..lastPage ELSE {}
\* the page jobs that are executing: resizing and encoding the image, or
\* extracting the text
JobsInFlight == { t \in TaskIds : jobpc[t] \in {"img", "text"} }
\* the limit the request asks for
ConcurrencyLimit == IF opts.concurrency = 0 THEN DefaultConcurrency ELSE opts.concurrency
\* the job of page p has been admitted by the limiter
Admitted(p) == \E t \in 1..Len(files) : files[t].page = p /\ starts[t] >= 1

\* C17 as stated: each page of the range is rasterized inside its own job
\* under the limiter: never more than concurrencyLimit rasterizations in
\* flight, and no page rasterized before its job was admitted.
C17_Original ==
  /\ Cardinality(RasterInFlight) <= Max(0, ConcurrencyLimit)
  /\ \A p \in RasterInFlight : Admitted(p)

\* C17 amended: all pages of the range are rasterized by one pdftocairo call,
\* made once, outside the limiter and finished before any page job exists;
\* each rendered page then has its own job under the limiter, in which its
\* image is resized and encoded and its text extracted: never more than
\* concurrencyLimit jobs are in flight, and no job works (and no text is
\* extracted) before the limiter admitted it.
C17_Amended ==
  /\ calls.render <= 1
  /\ pc \in {"start", "pdfinfo", "render", "readdir"}
       => /\ nsub = 0 /\ JobsInFlight = {}
          /\ \A p \in Pages : calls.text[p] = 0
  /\ RasterInFlight # {} => calls.render = 1
  /\ Cardinality(JobsInFlight) <= Max(0, ConcurrencyLimit)
  /\ \A t \in JobsInFlight : t <= Len(files) /\ starts[t] = 1 /\ tstate[t] = "running"
  /\ \A p \in Pages : calls.text[p] > 0 => (p \in firstPage..lastPage /\ Admitted(p))

\* one page job works while another waits in the queue of the limiter
C17_Witness ==
  /\ pc = "await"
  /\ \E t \in JobsInFlight, u \in TaskIds : u # t /\ tstate[u] = "queued"
  /\ calls.render = 1

(* ------------------------------ cli.js ---------------------------------- *)
\* String(n) for an integer n >= 0
RECURSIVE DecimalOf(_)
DecimalOf(k) ==
  IF k < 10 THEN <<Digits[k + 1]>>
  ELSE Append(DecimalOf(k \div 10), Digits[(k % 10) + 1])

\* String.prototype.padStart(width, c), c one character
RECURSIVE PadStart(_, _, _)
PadStartNone(str, width, c) == str

PadStart(str, width, c) ==
  IF Len(str) >= width THEN str ELSE PadStart(<<c>> \o str, width, c)

\* `${fmt === 'jpg' ? 'jpg' : fmt}`
CliExt(fmt) == IF fmt = <<"j", "p", "g">> THEN <<"j", "p", "g">> ELSE fmt
Txt == <<"t", "x", "t">>

\* path.join(outDir, `${base}-${pageSuffix}.${ext}`): outDir and base are the
\* same for all files of a run
OutFile(suffix, ext) == [suffix |-> suffix, ext |-> ext]
PageSuffix(result) == PadStart(DecimalOf(result.pageNumber), 3, "0")
ImgOut(result, fmt) == OutFile(PageSuffix(result), CliExt(fmt))
TxtOut(result) == OutFile(PageSuffix(result), Txt)

\* result.base64EncodedImage.match(/^data:image\/[^;]+;base64,(.+)$/): the
\* subtype is not empty and holds no ";" (the encoded buffer of sharp is
\* never empty)
Base64Match(result) ==
  /\ Len(result.mime) >= 1
  /\ \A i \in 1..Len(result.mime) : result.mime[i] # ";"

\* the command lines: options as commander hands them to convert, the
\* --keep-intermediate flag, and whether the folder of outPrefix exists
CliRequests ==
  [first : {1, 2}, maxPages : {1, MaxOpt}, format : {Png, JpgUpper, Gif},
   bg : {OpaqueWhite}, concurrency : {-1, 1, DefaultConcurrency},
   size : {DefaultSize}, dpi : {DefaultDpi}]

CliInit ==
  /\ opts \in CliRequests
  /\ doc \in Docs
  /\ duo = NoDuo
  /\ cli \in [pc : {"mkdir"}, keepIntermediate : BOOLEAN, outDir : {"absent", "present"},
              wpc : {<<>>}, written : {{}}, exit : {-1}, message : {FALSE}, done : {FALSE}]
  /\ bg = NoBg
  /\ n = 0
  /\ LimiterIdle
  /\ pc = "idle"
  /\ tempDir = "none"
  /\ dirFiles = {}
  /\ totalPages = 0 /\ firstPage = 0 /\ lastPage = 0
  /\ files = <<>>
  /\ results = <<>>
  /\ pending = "none"
  /\ outcome = "pending"
  /\ err = "none"
  /\ calls = NoCalls
  /\ warned = 0

\* the state of the convert call
convertvars == <<pc, opts, doc, duo, bg, tempDir, dirFiles, totalPages, firstPage, lastPage, files,
                 jobpc, recs, results, pending, outcome, err, calls, warned>>

\* catch (err) { console.error('❌', ...); process.exit(1); }
CliCatch == [cli EXCEPT !.pc = "exited", !.exit = 1, !.message = TRUE]

\* await fs.mkdir(outDir, { recursive: true }) resolved; convert is called
CliMkdirOk ==
  /\ cli.pc = "mkdir"
  /\ cli' = [cli EXCEPT !.pc = "convert", !.outDir = "present"]
  /\ pc' = "start"
  /\ UNCHANGED limvars
  /\ UNCHANGED <<opts, doc, duo, bg, tempDir, dirFiles, totalPages, firstPage, lastPage, files,
                 jobpc, recs, results, pending, outcome, err, calls, warned>>

\* fs.mkdir rejected
CliMkdirFail ==
  /\ cli.pc = "mkdir"
  /\ cli' = CliCatch
  /\ UNCHANGED limvars
  /\ UNCHANGED convertvars

\* a step of the convert call the program awaits
CliConvertStep ==
  /\ cli.pc = "convert"
  /\ Next

\* await convert(...) threw
CliConvertRejectedWriting ==
  /\ cli.pc = "convert"
  /\ outcome = "rejected"
  /\ cli' = [CliCatch EXCEPT !.written =
               { TxtOut(recs[t]) : t \in { u \in TaskIds : recs[u] # NoRec } }]
  /\ UNCHANGED limvars
  /\ UNCHANGED convertvars

CliConvertRejected ==
  /\ cli.pc = "convert"
  /\ outcome = "rejected"
  /\ cli' = CliCatch
  /\ UNCHANGED limvars
  /\ UNCHANGED convertvars

\* await convert(...) returned: the length check, then results.map starts
\* one writer per result, each up to its first await
CliConvertResolved ==
  /\ cli.pc = "convert"
  /\ outcome = "resolved"
  /\ IF Len(results) = 0
     THEN cli' = CliCatch           \* 'No pages were converted.'
     ELSE cli' = [cli EXCEPT !.pc = "write",
                             !.wpc = [i \in 1..Len(results) |->
                                        IF Base64Match(results[i]) THEN "img" ELSE "txt"]]
  /\ UNCHANGED limvars
  /\ UNCHANGED convertvars

\* await fs.writeFile(imgOut, imageBuffer) resolved; the text file is next
CliImgWritten(i) ==
  /\ cli.pc = "write"
  /\ i \in DOMAIN cli.wpc /\ cli.wpc[i] = "img"
  /\ cli' = [cli EXCEPT !.wpc[i] = "txt",
                        !.written = @ \cup {ImgOut(results[i], ToLowerCase(opts.format))}]
  /\ UNCHANGED limvars
  /\ UNCHANGED convertvars

\* await fs.writeFile(txtOut, result.extractedText) resolved
CliTxtWritten(i) ==
  /\ cli.pc = "write"
  /\ i \in DOMAIN cli.wpc /\ cli.wpc[i] = "txt"
  /\ cli' = [cli EXCEPT !.wpc[i] = "done", !.written = @ \cup {TxtOut(results[i])}]
  /\ UNCHANGED limvars
  /\ UNCHANGED convertvars

\* a writeFile rejected: Promise.all rejects, the catch block exits
CliWriteFail(i) ==
  /\ cli.pc = "write"
  /\ i \in DOMAIN cli.wpc /\ cli.wpc[i] \in {"img", "txt"}
  /\ cli' = [CliCatch EXCEPT !.wpc[i] = "failed"]
  /\ UNCHANGED limvars
  /\ UNCHANGED convertvars

\* Promise.all resolved: console.log('Done...'); the program ends
CliDone ==
  /\ cli.pc = "write"
  /\ \A i \in DOMAIN cli.wpc : cli.wpc[i] = "done"
  /\ cli' = [cli EXCEPT !.pc = "exited", !.exit = 0, !.done = TRUE]
  /\ UNCHANGED limvars
  /\ UNCHANGED convertvars

\* convert is pending and nothing is left that could settle it (no child
\* process, no file operation, no promise reaction): every page job that was
\* started is through, the others wait in the queue of the limiter
EventLoopEmpty ==
  /\ pc = "await"
  /\ \A t \in TaskIds : tstate[t] \notin {"running", "settled", "delivered"}
  /\ \E t \in 1..Len(files) : pout[t] # "ok"
  /\ \A t \in 1..Len(files) : pout[t] # "err"

CliDrained ==
  /\ cli.pc = "convert"
  /\ outcome = "pending"
  /\ EventLoopEmpty
  \* node leaves the event loop and the process ends with code 0
  /\ cli' = [cli EXCEPT !.pc = "exited", !.exit = 0]
  /\ UNCHANGED limvars
  /\ UNCHANGED convertvars

CliNext ==
  \/ CliMkdirOk
  \/ CliMkdirFail
  \/ CliConvertStep
  \/ CliConvertRejected
  \/ CliConvertResolved
  \/ \E i \in 1..MaxPage : CliImgWritten(i)
  \/ \E i \in 1..MaxPage : CliTxtWritten(i)
  \/ \E i \in 1..MaxPage : CliWriteFail(i)
  \/ CliDone
  \/ CliDrained

CliSpec == CliInit /\ [][CliNext]_vars

(* --------------------------- cli.js: properties ------------------------- *)
\* the three decimal digits of a page number below 1000
ThreeDigits(k) ==
  <<Digits[((k \div 100) % 10) + 1], Digits[((k \div 10) % 10) + 1], Digits[(k % 10) + 1]>>
\* the program ended after reporting success
CliSucceeded == cli.pc = "exited" /\ cli.done
ImageFiles == { f \in cli.written : f.ext # Txt }
TextFiles == { f \in cli.written : f.ext = Txt }

\* C18: on success the CLI has written, for every record convert returned,
\* exactly one image file <prefix>-<page number padded to 3 digits>.<ext> and
\* one text file <prefix>-<same suffix>.txt, no other page file, and as many
\* image files as text files.
C18_OutputFiles ==
  CliSucceeded =>
    LET ext == IF SameIgnoringCase(opts.format, Png) THEN Png ELSE ToLowerCase(opts.format)
        pages == { results[i].pageNumber : i \in 1..Len(results) }
    IN /\ cli.written = { [suffix |-> ThreeDigits(p), ext |-> e] : p \in pages, e \in {ext, Txt} }
       /\ Cardinality(ImageFiles) = Len(results)
       /\ Cardinality(TextFiles) = Len(results)
       /\ ext \in {Png, <<"j", "p", "g">>, Jpeg}

\* the program reported success after writing the files of two pages
C18_Witness ==
  /\ CliSucceeded
  /\ Len(results) = 2
  /\ Cardinality(cli.written) = 4

\* every page file of the records convert returned is there
AllPageFilesWritten ==
  /\ outcome = "resolved"
  /\ Len(results) >= 1
  /\ \A i \in 1..Len(results) :
       \E img \in ImageFiles, txt \in TextFiles :
         /\ img.suffix = ThreeDigits(results[i].pageNumber)
         /\ txt.suffix = ThreeDigits(results[i].pageNumber)

\* C19: the CLI exits with a non-zero code and an error message on every
\* failure (convert rejecting, convert returning zero records, a file write
\* failing) and exits 0 only after all page files were written; it creates
\* the destination directory, if absent, before converting.
C19_ExitCode ==
  /\ cli.pc = "exited"
       => /\ cli.exit = 0 <=> AllPageFilesWritten
          /\ cli.exit # 0 => cli.message
          /\ cli.exit \in {0, 1}
  /\ pc # "idle" => cli.outDir = "present"

\* pdftocairo has rendered the pages of the range into the scratch directory
Rendered == calls.render = 1 /\ pc # "render" /\ err # "RenderError"

\* C20: with --keep-intermediate the intermediate renders of the conversion
\* still exist after the CLI has finished; without the flag they are removed.
C20_KeepIntermediate ==
  (cli.pc = "exited" /\ Rendered)
    => (tempDir = "exists" <=> cli.keepIntermediate)

(* ------------------- convert(): collaborator calls ---------------------- *)
\* a collaborator call of this conversion has failed: pdfinfo, pdftocairo,
\* or sharp / pdftotext inside a page job
CollaboratorFailed == err \in {"pdfinfo", "RenderError"} \/ FailedJobs # {}

\* C21: no failure is retried: within one convert call the page count is
\* requested at most once, the render step runs at most once, the text of a
\* page is extracted at most once; after a collaborator call failed it is not
\* issued again and convert, when it settles, rejects.
C21_NoRetry ==
  /\ calls.pdfinfo <= 1
  /\ calls.render <= 1
  /\ \A p \in Pages : calls.text[p] <= 1
  /\ err = "pdfinfo" => calls.render = 0
  /\ err = "RenderError" => (nsub = 0 /\ \A p \in Pages : calls.text[p] = 0)
  /\ (CollaboratorFailed /\ outcome # "pending") => outcome = "rejected"
  /\ outcome = "resolved" => (err = "none" /\ ~CollaboratorFailed)

\* the text extraction of a page failed after the one of another page had
\* succeeded; convert rejected, and no call was made twice
C21_Witness ==
  /\ outcome = "rejected" /\ err = "PageError"
  /\ calls.pdfinfo = 1 /\ calls.render = 1
  /\ \E t, u \in TaskIds : tout[t] = "err" /\ tout[u] = "ok"
                            /\ calls.text[files[t].page] = 1

(* ------------------------ convert(): page files ------------------------- *)
\* the render step resolved and listPagePngs has returned
Listed == calls.render = 1 /\ err # "RenderError" /\ pc \notin {"render", "readdir"}

\* C22: the output location and base name handed to the render step are the
\* ones listPagePngs matches: after a successful render of pages
\* resolvedFirst..resolvedLast listPagePngs yields exactly one entry per page
\* of the range, and a valid document with a non-empty range never gives an
\* empty result.
C22_OneFilePerPage ==
  /\ Listed => [i \in 1..Len(files) |-> files[i].page]
                 = [i \in 1..(lastPage - firstPage + 1) |-> firstPage + i - 1]
  /\ (outcome = "resolved" /\ doc = "valid" /\ NonEmptyRange) => Len(results) >= 1

\* C23: once a convert call has settled, none of its page jobs is still
\* running and none is started afterwards; no page job reads an intermediate
\* file after the scratch directory has been removed.
C23_NoJobAfterSettle ==
  outcome # "pending" =>
    /\ \A t \in TaskIds : tstate[t] # "running"
    /\ queue = <<>>
    /\ tempDir = "removed" => JobsInFlight = {}

(* ------------------------ convert(): termination ------------------------ *)
\* convert waits for Promise.all while no page job is running, no reaction
\* is pending and jobs sit in the queue of the limiter: no step of the call
\* can be taken any more, it stays pending for ever
Stuck == outcome = "pending" /\ EventLoopEmpty /\ queue # <<>>

\* C24: for every integer value of the concurrency option, including 0 and
\* negative values, if every collaborator call terminates then convert
\* eventually settles and removes its scratch directory; no value makes the
\* call wait forever with page jobs queued and never started.
C24_NeverStuck ==
  /\ ~Stuck
  /\ (outcome = "pending" /\ pc = "await")
       => \/ \E t \in TaskIds : tstate[t] \in {"running", "settled", "delivered"}
          \/ \A t \in 1..Len(files) : pout[t] = "ok"
          \/ \E t \in 1..Len(files) : pout[t] = "err"

(* ----------------------- convert(): page records ------------------------ *)
\* f is the file pdftocairo wrote for page p: temp-pdf-<p>.png, the number
\* written in decimal, possibly with a leading zero
IsFileOfPage(f, p) ==
  /\ f.stem = TempBaseName /\ f.ext = "png"
  /\ f.num \in { DecimalOf(p), <<"0">> \o DecimalOf(p) }

\* the record belongs to one page: number, image file and text
OfOnePage(rec) ==
  /\ rec.pageNumber \in firstPage..lastPage
  /\ IsFileOfPage(rec.file, rec.pageNumber)
  /\ rec.textPage = rec.pageNumber

\* C25: in every record convert returns, page number, image and text belong
\* to the same page: the record with pageNumber p holds the image made from
\* the intermediate file of page p and the text extracted for page p, for
\* every interleaving of the concurrent jobs; no job uses another page's
\* file or text.
C25_RecordOfOnePage ==
  /\ \A t \in TaskIds : recs[t] # NoRec => OfOnePage(recs[t])
  /\ \A i \in 1..Len(results) : OfOnePage(results[i])
  /\ \A t \in TaskIds :
       jobpc[t] \in {"img", "text", "done"} =>
          /\ t <= Len(files)
          /\ IsFileOfPage(files[t].name, files[t].page)
          /\ jobpc[t] = "text" => calls.text[files[t].page] = 1

\* convert returned two records although the job of page 2 finished first
C25_Witness ==
  /\ outcome = "resolved"
  /\ Len(results) = 2
  /\ settleOrder[1] = 2

(* ----------------------- cli.js: failed conversion ---------------------- *)
\* C27: when convert rejects, the CLI writes no image file and no text file
\* at all: page files are written only after convert has returned the
\* complete list (the destination directory may have been created).
C27_NoOutputOnReject ==
  /\ outcome = "rejected" => (cli.written = {} /\ cli.wpc = <<>>)
  /\ cli.written # {} => (outcome = "resolved" /\ cli.pc \in {"write", "exited"})
  /\ (cli.pc = "exited" /\ outcome = "rejected") => (cli.exit = 1 /\ cli.outDir = "present")

\* a page job failed after another had produced its record; the program
\* ended with code 1 and no page file
C27_Witness ==
  /\ cli.pc = "exited" /\ cli.exit = 1
  /\ outcome = "rejected" /\ err = "PageError"
  /\ \E t \in TaskIds : recs[t] # NoRec
  /\ cli.written = {}

(* ---------------------- limiter: bookkeeping ---------------------------- *)
\* tasks whose promise has settled
SettledTasks == { t \in TaskIds : tstate[t] \in {"settled", "delivered", "released"} }
\* tasks whose .finally reaction has run
Released == { t \in TaskIds : tstate[t] = "released" }

Threw(r, ts) ==
  [t \in TaskIds |-> IF t \in Range(r.started) THEN "threw" ELSE ts[t]]
Rejected(r, po) ==
  [t \in TaskIds |-> IF t \in Range(r.started) THEN "err" ELSE po[t]]

\* limit(fn): fnThrows says what fn does if it is called now
SyncSubmit(fnThrows) ==
  /\ pc = "limiter"
  /\ nsub < MaxTasks
  /\ LET t == nsub + 1
         r == limit(n, active, queue, t)
     IN /\ active' = r.active
        /\ queue' = r.queue
        /\ starts' = Counted(r, starts)
        /\ startOrder' = startOrder \o r.started
        /\ nsub' = t
        /\ IF fnThrows /\ r.started # <<>>
           THEN /\ tstate' = Threw(r, [tstate EXCEPT ![t] = "queued"])
                /\ pout' = Rejected(r, [pout EXCEPT ![t] = "pending"])
           ELSE /\ tstate' = Started(r, [tstate EXCEPT ![t] = "queued"])
                /\ pout' = [pout EXCEPT ![t] = "pending"]
  /\ UNCHANGED <<n, tout, settleOrder>>
  /\ UNCHANGED cvars

\* .finally(() => { active--; next(); }) where the fn() next() calls may throw
SyncFinallyReaction(t, fnThrows) ==
  /\ pc = "limiter"
  /\ tstate[t] = "delivered"
  /\ LET r == next(n, active - 1, queue)
     IN /\ active' = r.active
        /\ queue' = r.queue
        /\ starts' = Counted(r, starts)
        /\ startOrder' = startOrder \o r.started
        /\ IF fnThrows /\ r.started # <<>>
           THEN tstate' = Threw(r, [tstate EXCEPT ![t] = "released"])
           ELSE tstate' = Started(r, [tstate EXCEPT ![t] = "released"])
  /\ UNCHANGED <<n, tout, pout, nsub, settleOrder>>
  /\ UNCHANGED cvars

SyncNext ==
  \/ \E fnThrows \in BOOLEAN : SyncSubmit(fnThrows)
  \/ \E t \in TaskIds : Settle(t, "ok")
  \/ \E t \in TaskIds : Settle(t, "err")
  \/ \E t \in TaskIds : ThenReaction(t)
  \/ \E t \in TaskIds, fnThrows \in BOOLEAN : SyncFinallyReaction(t, fnThrows)

SyncSpec == LimInit /\ [][SyncNext]_vars

\* C29: every task the limiter starts releases its slot exactly once, also
\* when the task function throws synchronously: the promise of the submission
\* then rejects, active is decremented and the next queued task is started.
C29_SlotReleased ==
  /\ \A t \in TaskIds : tstate[t] = "threw" => pout[t] = "err"
  /\ active = Cardinality(Holding)
  /\ queue # <<>> => Cardinality(Holding) = n

(* ------------------- two concurrent convert() calls --------------------- *)
\* Each call has its own closure: tempDir, files, limit (pLimit's active and
\* queue), results. What the calls share is os.tmpdir(). A page job is taken
\* in one step from its start to the end of its .finally reaction.
CallIds == 1..2
DirNames == {"pdf2square-a", "pdf2square-b"}
NoDir == [exists |-> FALSE, files |-> {}]
\* temp-pdf-<page>.png holding the render of page `page` of call `of`
PageFile(c, p) == [page |-> p, of |-> c]
NoCall(lim) ==
  [pc |-> "start", dir |-> "none", limit |-> lim,
   active |-> 0, queue |-> <<>>,
   tstate |-> [t \in TaskIds |-> "none"],
   pout |-> [t \in TaskIds |-> "none"],
   files |-> <<>>, read |-> [t \in TaskIds |-> 0],
   results |-> <<>>, pending |-> "none", outcome |-> "pending"]
\* every variable but duo
solovars == <<pc, opts, doc, bg, cli, tempDir, dirFiles, totalPages, firstPage, lastPage, files,
              jobpc, recs, results, pending, outcome, err, calls, warned>>

DuoInit ==
  /\ duo \in [call : [CallIds -> { NoCall(lim) : lim \in 1..MaxN }],
              tmp : {[d \in DirNames |-> NoDir]}]
  /\ n = 0
  /\ LimiterIdle
  /\ pc = "duo"
  /\ opts = NoOpts
  /\ doc = "valid"
  /\ bg = NoBg
  /\ cli = NoCli
  /\ tempDir = "none"
  /\ dirFiles = {}
  /\ totalPages = 0 /\ firstPage = 0 /\ lastPage = 0
  /\ files = <<>>
  /\ results = <<>>
  /\ pending = "none"
  /\ outcome = "pending"
  /\ err = "none"
  /\ calls = NoCalls
  /\ warned = 0

\* a throw inside the try block of call c
DuoThrow(c) == [duo.call[c] EXCEPT !.pending = "reject", !.pc = "rm"]

\* fs.mkdtemp(path.join(os.tmpdir(), "pdf2square-")): creates a directory
\* whose name is not in use (src/lib.js 57); the page count and the range
\* follow, then pdfToCairo is called
DuoMkdtempReusing(c, d) ==
  /\ duo.call[c].pc = "start"
  /\ duo' = [duo EXCEPT !.call[c].dir = d, !.call[c].pc = "render",
                        !.tmp[d].exists = TRUE]
  /\ UNCHANGED limvars
  /\ UNCHANGED solovars

DuoMkdtemp(c, d) ==
  /\ duo.call[c].pc = "start"
  /\ ~duo.tmp[d].exists
  /\ duo' = [duo EXCEPT !.call[c].dir = d, !.call[c].pc = "render",
                        !.tmp[d] = [exists |-> TRUE, files |-> {}]]
  /\ UNCHANGED limvars
  /\ UNCHANGED solovars

\* pdfToCairo of call c resolved: the directory of the call holds a file
\* for the pages `pages` of its range, none as well; a file of the same name
\* is overwritten (src/lib.js 80-87)
DuoRenderDone(c, pages) ==
  /\ duo.call[c].pc = "render"
  /\ LET d == duo.call[c].dir
     IN IF duo.tmp[d].exists
        THEN duo' = [duo EXCEPT !.call[c].pc = "readdir",
                                !.tmp[d].files =
                                   { f \in @ : f.page \notin pages }
                                     \cup { PageFile(c, p) : p \in pages }]
        ELSE duo' = [duo EXCEPT !.call[c] = DuoThrow(c)]
  /\ UNCHANGED limvars
  /\ UNCHANGED solovars

\* the pages of a set of files, ascending (listPagePngs: map, sort)
RECURSIVE AscendingPages(_)
AscendingPages(S) ==
  IF S = {} THEN <<>>
  ELSE LET m == CHOOSE f \in S : \A g \in S : f.page <= g.page
       IN <<m.page>> \o AscendingPages(S \ {m})

\* listPagePngs, then pLimit and files.map(... limit(job)) of call c
\* (src/lib.js 90-141, for an accepted format and background)
DuoPrepare(c) ==
  /\ duo.call[c].pc = "readdir"
  /\ LET d == duo.call[c].dir
         fl == AscendingPages(duo.tmp[d].files)
         r == SubmitAll(duo.call[c].limit, Len(fl))
     IN IF duo.tmp[d].exists
        THEN duo' = [duo EXCEPT
                       !.call[c].files = fl,
                       !.call[c].active = r.active,
                       !.call[c].queue = r.queue,
                       !.call[c].tstate = Started(r, [t \in TaskIds |->
                                            IF t <= Len(fl) THEN "queued" ELSE "none"]),
                       !.call[c].pout = [t \in TaskIds |->
                                            IF t <= Len(fl) THEN "pending" ELSE "none"],
                       !.call[c].pc = "await"]
        ELSE duo' = [duo EXCEPT !.call[c] = DuoThrow(c)]
  /\ UNCHANGED limvars
  /\ UNCHANGED solovars

\* page job t of call c runs to its end: sharp reads
\* path.join(tempDir, name), the text is extracted, the record is returned
\* (or the job rejects: always when the file is not there); then
\* .then(resolve, reject) and .finally(() => { active--; next(); })
DuoJob(c, t, o) ==
  /\ duo.call[c].tstate[t] = "running"
  /\ LET d == duo.call[c].dir
         here == { f \in duo.tmp[d].files : f.page = duo.call[c].files[t] }
         r == next(duo.call[c].limit, duo.call[c].active - 1, duo.call[c].queue)
     IN /\ o = "ok" => (duo.tmp[d].exists /\ here # {})
        /\ duo' = [duo EXCEPT
                     !.call[c].read[t] = IF o = "ok" THEN (CHOOSE f \in here : TRUE).of ELSE 0,
                     !.call[c].pout[t] = o,
                     !.call[c].active = r.active,
                     !.call[c].queue = r.queue,
                     !.call[c].tstate = Started(r, [@ EXCEPT ![t] = "released"])]
  /\ UNCHANGED limvars
  /\ UNCHANGED solovars

\* Promise.all of call c settles; results.sort; the finally block is next
DuoAwaited(c) ==
  /\ duo.call[c].pc = "await"
  /\ LET k == Len(duo.call[c].files)
     IN \/ /\ \A t \in 1..k : duo.call[c].pout[t] = "ok"
           /\ duo' = [duo EXCEPT
                        !.call[c].results =
                           [t \in 1..k |-> [pageNumber |-> duo.call[c].files[t],
                                            of |-> duo.call[c].read[t]]],
                        !.call[c].pending = "resolve",
                        !.call[c].pc = "rm"]
        \/ /\ \E t \in 1..k : duo.call[c].pout[t] = "err"
           /\ duo' = [duo EXCEPT !.call[c] = DuoThrow(c)]
  /\ UNCHANGED limvars
  /\ UNCHANGED solovars

\* finally: fs.rm(tempDir, { recursive: true, force: true }); convert settles
DuoRm(c) ==
  /\ duo.call[c].pc = "rm"
  /\ duo' = [duo EXCEPT
               !.tmp[duo.call[c].dir] = NoDir,
               !.call[c].pc = "done",
               !.call[c].outcome = IF duo.call[c].pending = "resolve"
                                   THEN "resolved" ELSE "rejected"]
  /\ UNCHANGED limvars
  /\ UNCHANGED solovars

DuoNext ==
  \/ \E c \in CallIds, d \in DirNames : DuoMkdtemp(c, d)
  \/ \E c \in CallIds, pages \in SUBSET (1..MaxTotal) : DuoRenderDone(c, pages)
  \/ \E c \in CallIds : DuoPrepare(c)
  \/ \E c \in CallIds, t \in TaskIds : DuoJob(c, t, "ok")
  \/ \E c \in CallIds, t \in TaskIds : DuoJob(c, t, "err")
  \/ \E c \in CallIds : DuoAwaited(c)
  \/ \E c \in CallIds : DuoRm(c)

DuoSpec == DuoInit /\ [][DuoNext]_vars


(* ------------------- properties of concurrent calls --------------------- *)
\* call c holds its scratch directory: from mkdtemp to the end of its rm
HoldsDir(c) == duo.call[c].pc \in {"render", "readdir", "await", "rm"}
\* page jobs of call c between their start and their .finally reaction
DuoInFlight(c) == { t \in TaskIds : duo.call[c].tstate[t] = "running" }
\* the listed files call c has still to read
StillNeeded(c) ==
  IF duo.call[c].pc = "await"
  THEN { duo.call[c].files[t] : t \in { u \in 1..Len(duo.call[c].files) :
                                          duo.call[c].tstate[u] \in {"queued", "running"} } }
  ELSE {}

\* C26: two concurrent convert calls use two distinct scratch directories and
\* two separate limiters: while both hold a directory the directories differ;
\* every file a call has still to read is in its directory, whatever the
\* other call has cleaned up; every record of a call's result was read from
\* a file of its own render, in ascending page order; and the page jobs a
\* call has in flight never exceed its own concurrency limit.
C26_ConcurrentCalls ==
  /\ \A c, e \in CallIds :
       (c # e /\ HoldsDir(c) /\ HoldsDir(e)) => duo.call[c].dir # duo.call[e].dir
  /\ \A c \in CallIds :
       /\ HoldsDir(c) => duo.tmp[duo.call[c].dir].exists
       /\ \A p \in StillNeeded(c) : PageFile(c, p) \in duo.tmp[duo.call[c].dir].files
       /\ duo.call[c].outcome = "resolved" =>
            \A i \in 1..Len(duo.call[c].results) :
              /\ duo.call[c].results[i].of = c
              /\ duo.call[c].results[i].pageNumber \in 1..MaxTotal
              /\ i > 1 => duo.call[c].results[i - 1].pageNumber
                             < duo.call[c].results[i].pageNumber
       /\ Cardinality(DuoInFlight(c)) <= duo.call[c].limit
       /\ Cardinality(DuoInFlight(c)) = duo.call[c].active

\* one call has resolved and removed its directory while the other, with a
\* different limit, still has a page job running and a page job queued
C26_Witness ==
  \E c, e \in CallIds :
    /\ duo.call[c].outcome = "resolved"
    /\ Len(duo.call[c].results) = 2
    /\ duo.call[c].limit = 2
    /\ duo.call[e].limit = 1
    /\ duo.call[e].pc = "await"
    /\ DuoInFlight(e) # {}
    /\ duo.call[e].queue # <<>>

====
